---- MODULE Spec2Model ----
(***************************************************************************)
(* Model of src/main.cpp: a limit order book with price-priority matching, *)
(* fed by generator threads through a concurrent queue and drained by one  *)
(* matching thread that records end-to-end latencies.                      *)
(***************************************************************************)
EXTENDS Integers, Sequences, FiniteSets, TLC

(***************************************************************************)
(* Bounds of the model and constants of the program.                       *)
(***************************************************************************)
\* generator threads started by main (the program starts 4)
NumProducers == 2
\* orders the generators create in one run (the program runs for 10 s)
MaxOrders == 2
\* price_dist(95, 105) and qty_dist(1, 10): the ends of the two distributions
PriceDistLo == 95
PriceDistHi == 105
QtyDistLo == 1
QtyDistHi == 10
\* instants the clock can return: 1..MaxClock (it stands still at MaxClock)
MaxClock == 2
\* the reporter's specification draws every sample sequence of up to
\* MaxSamples samples and one sequence of each length up to MaxCount
MaxSamples == 4
MaxCount == 100
\* direct process_order calls in the order-book specification
MaxCalls == 3
\* the order-book specification draws prices from 100..100+PriceSpan
PriceSpan == 2
\* ... and quantities from 1..MaxQty and the quantities 5 and 12
MaxQty == 2

VARIABLES
    running,                 \* std::atomic<bool> running
    global_order_id,         \* std::atomic<uint64_t> global_order_id
    order_queue,             \* moodycamel::ConcurrentQueue<Order>: one FIFO per producer
    end_to_end_latencies_ns, \* std::vector<long long>
    stats,                   \* what print_latency_stats reported
    bids, asks,              \* OrderBook::bids, OrderBook::asks (std::map<Price, Quantity>)
    clock,                   \* the instant the clock last returned
    pc_main, main_i,         \* main's position and its loop index i
    pc_prod, p_order,        \* each producer_thread's position and its local 'order'
    pc_cons, c_order,        \* consumer_thread's position and its local 'order'
    last,                    \* history: the last process_order call (book before, order, fills)
    processed,               \* history: number of process_order calls that returned
    issued,                  \* history: the ids fetch_add handed out, in order
    submitted                \* history: number of enqueue calls that returned

vars == <<running, global_order_id, order_queue, end_to_end_latencies_ns, stats,
          bids, asks, clock, pc_main, main_i, pc_prod, p_order, pc_cons, c_order,
          last, processed, issued, submitted>>

book_vars == <<bids, asks, last, processed>>
pipe_vars == <<running, global_order_id, order_queue, end_to_end_latencies_ns, stats,
               clock, pc_main, main_i, pc_prod, p_order, pc_cons, c_order,
               issued, submitted>>

Producers == 1..NumProducers
BUY == "BUY"
SELL == "SELL"

\* std::min  (faulty: std::max)
Max2(a, b) == IF a < b THEN b ELSE a
Min2(a, b) == IF a < b THEN a ELSE b
MinOf(S) == CHOOSE x \in S : \A y \in S : x <= y
MaxOf(S) == CHOOSE x \in S : \A y \in S : x >= y

RECURSIVE SumSeq(_)
SumSeq(s) == IF s = <<>> THEN 0 ELSE Head(s) + SumSeq(Tail(s))

RECURSIVE SumMap(_)
SumMap(m) ==
    IF DOMAIN m = {} THEN 0
    ELSE LET k == MinOf(DOMAIN m)
         IN m[k] + SumMap([x \in DOMAIN m \ {k} |-> m[x]])

(***************************************************************************)
(* std::map<Price, Quantity>: a function whose domain is the set of keys   *)
(* present.  A forward iterator is {k} (at key k) or {} (end()).           *)
(***************************************************************************)
EmptyMap == [x \in {} |-> 0]
End == {}
At(k) == {k}
Key(it) == CHOOSE k \in it : TRUE

\* map.begin()
Begin(m) == IF DOMAIN m = {} THEN End ELSE At(MinOf(DOMAIN m))

\* a faulty advance: ++ applied to the iterator erase() returned
SuccSkips(m, it) ==
    LET above == {x \in DOMAIN m : x > Key(it)}
        rest == above \ {MinOf(above)}
    IN IF above = {} \/ rest = {} THEN End ELSE At(MinOf(rest))

\* ++it, and the iterator map.erase(it) returns: the next greater key
Succ(m, it) ==
    LET above == {x \in DOMAIN m : x > Key(it)}
    IN IF above = {} THEN End ELSE At(MinOf(above))

\* --it: the next smaller key (the greatest key when it = end())
Pred(m, it) ==
    LET below == {x \in DOMAIN m : it = End \/ x < Key(it)}
    IN At(MaxOf(below))

\* map.erase(it): the map without the key
Erase(m, it) == [x \in DOMAIN m \ it |-> m[x]]

\* map[k] (operator[]): the key is created with quantity 0 when absent
Subscript(m, k) == [x \in DOMAIN m \cup {k} |-> IF x \in DOMAIN m THEN m[x] ELSE 0]

(***************************************************************************)
(* OrderBook                                                               *)
(***************************************************************************)
\* a faulty add_to_book: '=' where the code has '+='
add_to_book_assign(b, a, price, quantity, side) ==
    IF side = BUY
    THEN [bids |-> [Subscript(b, price) EXCEPT ![price] = quantity], asks |-> a]
    ELSE [bids |-> b, asks |-> [Subscript(a, price) EXCEPT ![price] = quantity]]

add_to_book(b, a, price, quantity, side) ==
    IF side = BUY
    THEN [bids |-> [Subscript(b, price) EXCEPT ![price] = @ + quantity], asks |-> a]
    ELSE [bids |-> b, asks |-> [Subscript(a, price) EXCEPT ![price] = @ + quantity]]

\* if (buy_order.price < ask_price) break  (faulty: <=)
BuyStopsOffByOne(price, ask_price) == price <= ask_price
BuyStops(price, ask_price) == price < ask_price

\* if (sell_order.price > bid_price) break  (faulty: the scan never stops)
SellNeverStops(price, bid_price) == FALSE
SellStops(price, bid_price) == price > bid_price

\* if (ask_quantity == 0) / if (bid_quantity == 0): the level is erased
\* (faulty: the test never succeeds)
LevelFilledNever(level_quantity) == level_quantity < 0
LevelFilled(level_quantity) == level_quantity = 0

\* if (order.quantity > 0) add_to_book(...)  (faulty: unconditional)
RestsAlways(quantity) == TRUE
Rests(quantity) == quantity > 0

\* One fill of the scan: the level, the matched quantity, whether the level
\* was erased, and the order's remaining quantity after it.
Fill(price, matched, erased, remaining) ==
    [price |-> price, matched |-> matched, erased |-> erased, remaining |-> remaining]

\* the for loop of match_buy: ask_iter walks asks from begin()
RECURSIVE match_buy_loop(_, _, _, _, _)
match_buy_loop(a, ask_iter, price, quantity, fills) ==
    IF ~(ask_iter # End /\ quantity > 0)
    THEN [levels |-> a, quantity |-> quantity, fills |-> fills]
    ELSE LET ask_price == Key(ask_iter)
         IN IF BuyStops(price, ask_price)
            THEN [levels |-> a, quantity |-> quantity, fills |-> fills]
            ELSE LET matched_quantity == Min2(quantity, a[ask_price])
                     q1 == quantity - matched_quantity
                     a1 == [a EXCEPT ![ask_price] = @ - matched_quantity]
                 IN IF LevelFilled(a1[ask_price])
                    THEN match_buy_loop(Erase(a1, ask_iter), Succ(a1, ask_iter), price, q1,
                                        Append(fills, Fill(ask_price, matched_quantity, TRUE, q1)))
                    ELSE match_buy_loop(a1, Succ(a1, ask_iter), price, q1,
                                        Append(fills, Fill(ask_price, matched_quantity, FALSE, q1)))

match_buy(b, a, order) ==
    LET r == match_buy_loop(a, Begin(a), order.price, order.quantity, <<>>)
        rest == IF Rests(r.quantity)
                THEN add_to_book(b, r.levels, order.price, r.quantity, BUY)
                ELSE [bids |-> b, asks |-> r.levels]
    IN [bids |-> rest.bids, asks |-> rest.asks,
        order |-> [order EXCEPT !.quantity = r.quantity], fills |-> r.fills]

(***************************************************************************)
(* A reverse iterator is modelled by its base(): it designates the element *)
(* before the base.  rbegin() has base end(), rend() has base begin().     *)
(***************************************************************************)
RBegin(m) == End
REnd(m) == Begin(m)
RDeref(m, base) == Key(Pred(m, base))
\* std::next(rit).base(), and the base of ++rit: the element rit designates
RNextBase(m, base) == Pred(m, base)

\* bid_iter = reverse_iterator(bids.erase(victim)): the base of the new
\* reverse iterator is the iterator erase returns  (faulty: the iterator is
\* advanced once more, past the next lower level)
ResumeSkips(m, victim) ==
    LET below == {x \in DOMAIN m : x < Key(victim)}
    IN IF below = {} THEN Succ(m, victim) ELSE At(MaxOf(below))
ResumeAfterErase(m, victim) == Succ(m, victim)

\* the for loop of match_sell: bid_iter walks bids from rbegin()
RECURSIVE match_sell_loop(_, _, _, _, _)
match_sell_loop(b, bid_iter, price, quantity, fills) ==
    IF ~(bid_iter # REnd(b) /\ quantity > 0)
    THEN [levels |-> b, quantity |-> quantity, fills |-> fills]
    ELSE LET bid_price == RDeref(b, bid_iter)
         IN IF SellStops(price, bid_price)
            THEN [levels |-> b, quantity |-> quantity, fills |-> fills]
            ELSE LET matched_quantity == Min2(quantity, b[bid_price])
                     q1 == quantity - matched_quantity
                     b1 == [b EXCEPT ![bid_price] = @ - matched_quantity]
                 IN IF LevelFilled(b1[bid_price])
                    THEN LET victim == RNextBase(b1, bid_iter)
                         IN match_sell_loop(Erase(b1, victim), ResumeAfterErase(b1, victim), price, q1,
                                            Append(fills, Fill(bid_price, matched_quantity, TRUE, q1)))
                    ELSE match_sell_loop(b1, RNextBase(b1, bid_iter), price, q1,
                                         Append(fills, Fill(bid_price, matched_quantity, FALSE, q1)))

match_sell(b, a, order) ==
    LET r == match_sell_loop(b, RBegin(b), order.price, order.quantity, <<>>)
        rest == IF Rests(r.quantity)
                THEN add_to_book(r.levels, a, order.price, r.quantity, SELL)
                ELSE [bids |-> r.levels, asks |-> a]
    IN [bids |-> rest.bids, asks |-> rest.asks,
        order |-> [order EXCEPT !.quantity = r.quantity], fills |-> r.fills]

process_order(b, a, order) ==
    IF order.side = BUY THEN match_buy(b, a, order) ELSE match_sell(b, a, order)

(***************************************************************************)
(* Orders, the clock, the id counter and the queue.                        *)
(***************************************************************************)
\* Order order{}: every field value-initialised (timestamps at the epoch)
ZeroOrder ==
    [id |-> 0, side |-> BUY, price |-> 0, quantity |-> 0,
     timestamp_produce |-> 0, timestamp_consume |-> 0, timestamp_processed |-> 0]

\* high_resolution_clock::now(), read as one monotonic clock: an instant
\* not before the one it last returned
Now == {t \in {clock, clock + 1} : t <= MaxClock}

\* What the generators draw.  The threads' interleavings do not depend on an
\* order's price and quantity, so the pipeline draws one point of each
\* distribution and both sides: a BUY and a SELL at one price match.  The
\* book's behaviour over prices and quantities is the subject of SpecBook.
PriceDraws == {p \in {PriceDistLo} : p <= PriceDistHi}
QtyDraws == {q \in {QtyDistLo} : q <= QtyDistHi}

\* global_order_id.fetch_add(1): the value before, and the counter after
\* (uint64_t; the bounded runs stay far below 2^64).  Faulty: the increment
\* is lost.
FetchAddLost(v) == [ret |-> v, new |-> v]
FetchAdd(v) == [ret |-> v, new |-> v + 1]

\* order_queue.enqueue(order) by producer p: appended to p's own FIFO
Enqueue(q, p, order) == [q EXCEPT ![p] = Append(@, order)]
\* order_queue.size_approx()
SizeApprox(q) == SumSeq([p \in Producers |-> Len(q[p])])
\* order_queue.try_dequeue(order): the sub-queues an element may come from
DequeueFrom(q) == {p \in Producers : q[p] # <<>>}

\* end_to_end_latencies_ns.push_back(latency)  (faulty: inserted in front)
PushFront(v, x) == <<x>> \o v
PushBack(v, x) == Append(v, x)

\* the latency of the consumer's order, in clock units  (faulty: operands
\* exchanged)
LatencyReversed(order) == order.timestamp_produce - order.timestamp_processed
Latency(order) == order.timestamp_processed - order.timestamp_produce

\* the history record of one process_order call
Call(b, a, order, r) ==
    [bids |-> b, asks |-> a, side |-> order.side, price |-> order.price,
     quantity |-> order.quantity, fills |-> r.fills, remaining |-> r.order.quantity]
NoCall ==
    [bids |-> EmptyMap, asks |-> EmptyMap, side |-> BUY, price |-> 0,
     quantity |-> 0, fills |-> <<>>, remaining |-> 0]

(***************************************************************************)
(* print_latency_stats                                                     *)
(***************************************************************************)
\* end_to_end_latencies_ns[total_count * p], p given in hundredths: the
\* index is the product converted to an integer, which truncates.  (The
\* code multiplies by the double 0.50, 0.90 or 0.99; for every count up to
\* 3,000,000 the truncated double product is this integer quotient.)
\* Faulty variants: the product rounded up; the rank taken over count - 1.
PercentileIndexCeil(total_count, p) == (total_count * p + 99) \div 100
PercentileIndexLess(total_count, p) == ((total_count - 1) * p) \div 100
PercentileIndex(total_count, p) == (total_count * p) \div 100

\* if (end_to_end_latencies_ns.empty())  (faulty: the test never succeeds)
IsEmptyNever(lat) == FALSE
IsEmpty(lat) == lat = <<>>

\* what a read outside the vector yields stands for any value
OutOfRange == 0 - 1

print_latency_stats(lat) ==
    IF IsEmpty(lat)
    THEN [latencies |-> lat, stats |-> [kind |-> "no_latencies"]]
    ELSE LET sorted == SortSeq(lat, LAMBDA x, y : x < y)
             total_count == Len(sorted)
             sum == SumSeq(sorted)
             \* a C++ index is 0-based, a TLA+ sequence 1-based
             at(i) == IF i \in 0..(total_count - 1) THEN sorted[i + 1] ELSE OutOfRange
             p50 == PercentileIndex(total_count, 50)
             p90 == PercentileIndex(total_count, 90)
             p99 == PercentileIndex(total_count, 99)
         IN [latencies |-> sorted,
             stats |-> [kind |-> "stats", total_count |-> total_count,
                        sum |-> sum,
                        \* mean_ns = double(sum) / total_count, kept as a fraction
                        mean_ns |-> [num |-> sum, den |-> total_count],
                        min_ns |-> at(0), max_ns |-> at(total_count - 1),
                        p50 |-> p50, p90 |-> p90, p99 |-> p99,
                        p50_ns |-> at(p50), p90_ns |-> at(p90), p99_ns |-> at(p99)]]

(***************************************************************************)
(* Initial state: the globals as constructed, main about to start threads. *)
(***************************************************************************)
Init ==
    /\ running = TRUE
    /\ global_order_id = 0
    /\ order_queue = [p \in Producers |-> <<>>]
    /\ end_to_end_latencies_ns = <<>>
    /\ stats = [kind |-> "none"]
    /\ bids = EmptyMap
    /\ asks = EmptyMap
    /\ clock = 1
    /\ pc_main = "start_consumer"
    /\ main_i = 0
    /\ pc_prod = [p \in Producers |-> "idle"]
    /\ p_order = [p \in Producers |-> ZeroOrder]
    /\ pc_cons = "idle"
    /\ c_order = ZeroOrder
    /\ last = NoCall
    /\ processed = 0
    /\ issued = <<>>
    /\ submitted = 0

(***************************************************************************)
(* producer_thread                                                         *)
(***************************************************************************)
\* orders in the making that have not yet taken their id
Creating == Cardinality({p \in Producers : pc_prod[p] = "create"})

\* while (running)  (faulty: the loop never reads the signal)
LoopTestAlways(run_signal) == TRUE
LoopTest(run_signal) == run_signal

\* while (running): the model stops creating at MaxOrders orders
P_check(p) ==
    /\ pc_prod[p] = "check"
    /\ IF LoopTest(running)
       THEN /\ global_order_id + Creating < MaxOrders
            /\ pc_prod' = [pc_prod EXCEPT ![p] = "create"]
       ELSE pc_prod' = [pc_prod EXCEPT ![p] = "done"]
    /\ UNCHANGED <<running, global_order_id, order_queue, end_to_end_latencies_ns, stats,
                   clock, pc_main, main_i, p_order, pc_cons, c_order, issued, submitted>>
    /\ UNCHANGED book_vars

\* Order order{}; id = fetch_add(1); side, price, quantity drawn;
\* order.timestamp_produce = now()
P_create(p) ==
    /\ pc_prod[p] = "create"
    /\ \E side \in {BUY, SELL}, price \in PriceDraws, quantity \in QtyDraws, t \in Now :
          LET f == FetchAdd(global_order_id)
          IN /\ global_order_id' = f.new
             /\ issued' = Append(issued, f.ret)
             /\ clock' = t
             /\ p_order' = [p_order EXCEPT ![p] =
                               [ZeroOrder EXCEPT !.id = f.ret, !.side = side,
                                                 !.price = price, !.quantity = quantity,
                                                 !.timestamp_produce = t]]
    /\ pc_prod' = [pc_prod EXCEPT ![p] = "enqueue"]
    /\ UNCHANGED <<running, order_queue, end_to_end_latencies_ns, stats,
                   pc_main, main_i, pc_cons, c_order, submitted>>
    /\ UNCHANGED book_vars

\* order_queue.enqueue(order); sleep; the iteration's 'order' goes out of
\* scope; back to the loop test
P_enqueue(p) ==
    /\ pc_prod[p] = "enqueue"
    /\ order_queue' = Enqueue(order_queue, p, p_order[p])
    /\ submitted' = submitted + 1
    /\ p_order' = [p_order EXCEPT ![p] = ZeroOrder]
    /\ pc_prod' = [pc_prod EXCEPT ![p] = "check"]
    /\ UNCHANGED <<running, global_order_id, end_to_end_latencies_ns, stats,
                   clock, pc_main, main_i, pc_cons, c_order, issued>>
    /\ UNCHANGED book_vars

producer_thread(p) == P_check(p) \/ P_create(p) \/ P_enqueue(p)

(***************************************************************************)
(* consumer_thread                                                         *)
(***************************************************************************)
\* the second operand of the loop test: order_queue.size_approx() > 0
\* (faulty: >= 0)
DrainMoreAlways(size) == size >= 0
DrainMore(size) == size > 0

\* while (running || ...): the first operand
C_check_running ==
    /\ pc_cons = "loop"
    /\ pc_cons' = IF running THEN "dequeue" ELSE "check_size"
    /\ UNCHANGED <<running, global_order_id, order_queue, end_to_end_latencies_ns, stats,
                   clock, pc_main, main_i, pc_prod, p_order, c_order, issued, submitted>>
    /\ UNCHANGED book_vars

\* while (... || order_queue.size_approx() > 0): read once running was false
C_check_size ==
    /\ pc_cons = "check_size"
    /\ pc_cons' = IF DrainMore(SizeApprox(order_queue)) THEN "dequeue" ELSE "final"
    /\ UNCHANGED <<running, global_order_id, order_queue, end_to_end_latencies_ns, stats,
                   clock, pc_main, main_i, pc_prod, p_order, c_order, issued, submitted>>
    /\ UNCHANGED book_vars

\* if (order_queue.try_dequeue(order)) ... else if (running) yield
C_dequeue ==
    /\ pc_cons = "dequeue"
    /\ IF DequeueFrom(order_queue) # {}
       THEN \E p \in DequeueFrom(order_queue) :
               /\ c_order' = Head(order_queue[p])
               /\ order_queue' = [order_queue EXCEPT ![p] = Tail(@)]
               /\ pc_cons' = "process"
       ELSE /\ pc_cons' = "loop"
            /\ UNCHANGED <<c_order, order_queue>>
    /\ UNCHANGED <<running, global_order_id, end_to_end_latencies_ns, stats,
                   clock, pc_main, main_i, pc_prod, p_order, issued, submitted>>
    /\ UNCHANGED book_vars

\* order.timestamp_consume = now(); book.process_order(order)
C_process ==
    /\ pc_cons = "process"
    /\ \E t \in Now :
          LET o == [c_order EXCEPT !.timestamp_consume = t]
              r == process_order(bids, asks, o)
          IN /\ clock' = t
             /\ bids' = r.bids
             /\ asks' = r.asks
             /\ c_order' = r.order
             /\ last' = Call(bids, asks, o, r)
    /\ processed' = processed + 1
    /\ pc_cons' = "record"
    /\ UNCHANGED <<running, global_order_id, order_queue, end_to_end_latencies_ns, stats,
                   pc_main, main_i, pc_prod, p_order, issued, submitted>>

\* order.timestamp_processed = now(); latencies.push_back(processed - produce)
C_record ==
    /\ pc_cons = "record"
    /\ \E t \in Now :
          LET o == [c_order EXCEPT !.timestamp_processed = t]
          IN /\ clock' = t
             /\ c_order' = o
             /\ end_to_end_latencies_ns' = PushBack(end_to_end_latencies_ns, Latency(o))
    /\ pc_cons' = "loop"
    /\ UNCHANGED <<running, global_order_id, order_queue, stats,
                   pc_main, main_i, pc_prod, p_order, issued, submitted>>
    /\ UNCHANGED book_vars

\* after the loop: book.print_top_of_book(), and the thread ends
C_final ==
    /\ pc_cons = "final"
    /\ pc_cons' = "done"
    /\ UNCHANGED <<running, global_order_id, order_queue, end_to_end_latencies_ns, stats,
                   clock, pc_main, main_i, pc_prod, p_order, c_order, issued, submitted>>
    /\ UNCHANGED book_vars

consumer_thread ==
    C_check_running \/ C_check_size \/ C_dequeue \/ C_process \/ C_record \/ C_final

(***************************************************************************)
(* main                                                                    *)
(***************************************************************************)
\* std::thread consumer = std::thread(consumer_thread)
M_start_consumer ==
    /\ pc_main = "start_consumer"
    /\ pc_cons' = "loop"
    /\ pc_main' = "start_producers"
    /\ main_i' = 0
    /\ UNCHANGED <<running, global_order_id, order_queue, end_to_end_latencies_ns, stats,
                   clock, pc_prod, p_order, c_order, issued, submitted>>
    /\ UNCHANGED book_vars

\* for (i = 0; i < NUM_PRODUCER_THREADS; ++i) producers.emplace_back(producer_thread, i)
M_start_producer ==
    /\ pc_main = "start_producers"
    /\ IF main_i < NumProducers
       THEN /\ pc_prod' = [pc_prod EXCEPT ![main_i + 1] = "check"]
            /\ main_i' = main_i + 1
            /\ pc_main' = pc_main
       ELSE /\ pc_main' = "sleep"
            /\ UNCHANGED <<pc_prod, main_i>>
    /\ UNCHANGED <<running, global_order_id, order_queue, end_to_end_latencies_ns, stats,
                   clock, p_order, pc_cons, c_order, issued, submitted>>
    /\ UNCHANGED book_vars

\* sleep_for(SIMULATION_DURATION_SECONDS); running = false
M_stop ==
    /\ pc_main = "sleep"
    /\ running' = FALSE
    /\ pc_main' = "join_producers"
    /\ main_i' = 0
    /\ UNCHANGED <<global_order_id, order_queue, end_to_end_latencies_ns, stats,
                   clock, pc_prod, p_order, pc_cons, c_order, issued, submitted>>
    /\ UNCHANGED book_vars

\* for (auto& t : producers) t.join()
M_join_producer ==
    /\ pc_main = "join_producers"
    /\ IF main_i < NumProducers
       THEN /\ pc_prod[main_i + 1] = "done"
            /\ main_i' = main_i + 1
            /\ pc_main' = pc_main
       ELSE /\ pc_main' = "join_consumer"
            /\ UNCHANGED main_i
    /\ UNCHANGED <<running, global_order_id, order_queue, end_to_end_latencies_ns, stats,
                   clock, pc_prod, p_order, pc_cons, c_order, issued, submitted>>
    /\ UNCHANGED book_vars

\* consumer.join()  (faulty: main does not wait)
JoinNothing(pc) == TRUE
JoinConsumer(pc) == pc = "done"

M_join_consumer ==
    /\ pc_main = "join_consumer"
    /\ JoinConsumer(pc_cons)
    /\ pc_main' = "report"
    /\ UNCHANGED <<running, global_order_id, order_queue, end_to_end_latencies_ns, stats,
                   clock, main_i, pc_prod, p_order, pc_cons, c_order, issued, submitted>>
    /\ UNCHANGED book_vars

\* print_latency_stats(); return 0
M_report ==
    /\ pc_main = "report"
    /\ LET r == print_latency_stats(end_to_end_latencies_ns)
       IN /\ end_to_end_latencies_ns' = r.latencies
          /\ stats' = r.stats
    /\ pc_main' = "done"
    /\ UNCHANGED <<running, global_order_id, order_queue,
                   clock, main_i, pc_prod, p_order, pc_cons, c_order, issued, submitted>>
    /\ UNCHANGED book_vars

main ==
    \/ M_start_consumer
    \/ M_start_producer
    \/ M_stop
    \/ M_join_producer
    \/ M_join_consumer
    \/ M_report

Next == main \/ consumer_thread \/ (\E p \in Producers : producer_thread(p))

Spec == Init /\ [][Next]_vars

\* Every started thread that can take a step eventually takes one.
FairSpec ==
    /\ Spec
    /\ WF_vars(main)
    /\ WF_vars(consumer_thread)
    /\ \A p \in Producers : WF_vars(producer_thread(p))

(***************************************************************************)
(* The order book on its own: process_order called directly, from an empty *)
(* book, on any sequence of at most MaxCalls orders of positive quantity.  *)
(***************************************************************************)
BookPrices == 100..(100 + PriceSpan)
BookQtys == (1..MaxQty) \cup {5, 12}
BookOrders ==
    {[ZeroOrder EXCEPT !.side = s, !.price = p, !.quantity = q] :
        s \in {BUY, SELL}, p \in BookPrices, q \in BookQtys}

DirectProcess(order) ==
    /\ processed < MaxCalls
    /\ LET r == process_order(bids, asks, order)
       IN /\ bids' = r.bids
          /\ asks' = r.asks
          /\ last' = Call(bids, asks, order, r)
    /\ processed' = processed + 1
    /\ UNCHANGED pipe_vars

NextBook == \E order \in BookOrders : DirectProcess(order)

SpecBook == Init /\ [][NextBook]_vars

(***************************************************************************)
(* The order book fed with orders that nothing validated: quantities from  *)
(* -1 up, so zero and negative ones too.                                   *)
(***************************************************************************)
AnyQtys == (0 - 1)..MaxQty
AnyOrders ==
    {[ZeroOrder EXCEPT !.side = s, !.price = p, !.quantity = q] :
        s \in {BUY, SELL}, p \in BookPrices, q \in AnyQtys}

NextBookAny == \E order \in AnyOrders : DirectProcess(order)

SpecBookAny == Init /\ [][NextBookAny]_vars

(***************************************************************************)
(* The reporter on its own: every thread has been joined, the latency      *)
(* sequence is any of SampleSeqs, and main calls print_latency_stats.      *)
(***************************************************************************)
SampleValues == {10, 20, 30, 40}
ShortSeqs == UNION {[1..n -> SampleValues] : n \in 0..MaxSamples}
LongSeqs == {[i \in 1..n |-> n - i] : n \in 1..MaxCount}
SampleSeqs == ShortSeqs \cup LongSeqs

InitStats ==
    /\ end_to_end_latencies_ns \in SampleSeqs
    /\ running = FALSE
    /\ global_order_id = Len(end_to_end_latencies_ns)
    /\ order_queue = [p \in Producers |-> <<>>]
    /\ stats = [kind |-> "none"]
    /\ bids = EmptyMap
    /\ asks = EmptyMap
    /\ clock = 1 + MaxOf({0} \cup {end_to_end_latencies_ns[i] : i \in DOMAIN end_to_end_latencies_ns})
    /\ pc_main = "report"
    /\ main_i = NumProducers
    /\ pc_prod = [p \in Producers |-> "done"]
    /\ p_order = [p \in Producers |-> ZeroOrder]
    /\ pc_cons = "done"
    /\ c_order = ZeroOrder
    /\ last = NoCall
    /\ processed = Len(end_to_end_latencies_ns)
    /\ issued = [i \in 1..Len(end_to_end_latencies_ns) |-> i - 1]
    /\ submitted = Len(end_to_end_latencies_ns)

SpecStats == InitStats /\ [][M_report]_vars

(***************************************************************************)
(* Properties of the order book (checked under SpecBook).                  *)
(***************************************************************************)
\* the quantity at a price, 0 when the map has no such level
QtyAt(m, price) == IF price \in DOMAIN m THEN m[price] ELSE 0
\* the opposite and the own side of the last call, before and after it
OppBefore == IF last.side = BUY THEN last.asks ELSE last.bids
OppAfter == IF last.side = BUY THEN asks ELSE bids
OwnBefore == IF last.side = BUY THEN last.bids ELSE last.asks
OwnAfter == IF last.side = BUY THEN bids ELSE asks
\* price a is a better opposite-side price than b for the last call's order
Better(a, b) == IF last.side = BUY THEN a < b ELSE a > b
FillMatched == [i \in DOMAIN last.fills |-> last.fills[i].matched]

\* C1: after any sequence of process_order calls on orders of positive
\* quantity from an empty book, when both sides are non-empty the highest
\* bid price is strictly below the lowest ask price.
C1_NoCrossedBook ==
    (DOMAIN bids # {} /\ DOMAIN asks # {}) => MaxOf(DOMAIN bids) < MinOf(DOMAIN asks)

\* a call that matched against a level and left both sides non-empty
C1_Witness ==
    /\ last.fills # <<>>
    /\ DOMAIN bids # {} /\ DOMAIN asks # {}
    /\ MaxOf(DOMAIN bids) < MinOf(DOMAIN asks)

\* C2: every level present in bids or asks has a quantity above 0, and a
\* level that matching reduced to exactly 0 is gone when the call returns.
C2_PositiveLevels ==
    /\ \A p \in DOMAIN bids : bids[p] > 0
    /\ \A p \in DOMAIN asks : asks[p] > 0
    /\ \A i \in DOMAIN last.fills :
          LET f == last.fills[i]
          IN (f.matched = QtyAt(OppBefore, f.price)) <=> (f.price \notin DOMAIN OppAfter)

\* a call whose fill took a level's whole quantity, other levels remaining
C2_Witness ==
    /\ \E i \in DOMAIN last.fills :
          /\ last.fills[i].matched = QtyAt(OppBefore, last.fills[i].price)
          /\ last.fills[i].price \notin DOMAIN OppAfter
    /\ DOMAIN OppAfter # {}

\* C3: for each call on an order of positive quantity q, the quantity
\* removed from the opposite side's levels plus the quantity added to the
\* order's own side at its price is q.
C3_Conservation ==
    processed > 0 =>
        /\ SumMap(OppBefore) - SumMap(OppAfter) = SumSeq(FillMatched)
        /\ SumSeq(FillMatched) + (QtyAt(OwnAfter, last.price) - QtyAt(OwnBefore, last.price))
              = last.quantity
        /\ \A p \in (DOMAIN OwnAfter \cup DOMAIN OwnBefore) \ {last.price} :
              QtyAt(OwnAfter, p) = QtyAt(OwnBefore, p)

\* a call that swept two levels and rested the remainder on its own side
C3_Witness ==
    /\ Len(last.fills) = 2
    /\ last.remaining > 0
    /\ QtyAt(OwnAfter, last.price) = last.remaining
    /\ SumSeq(FillMatched) + last.remaining = last.quantity

\* C10: a BUY fills ask levels in ascending and a SELL bid levels in
\* descending price order; a level is touched only if every better-priced
\* opposite level was consumed entirely and removed in the same call; no
\* level priced worse than the order's limit is touched; and from asks
\* {101:5, 102:5} and no bids, BUY 12@102 leaves asks empty and bids {102:2}.
C10_PricePriority ==
    /\ \A i \in DOMAIN last.fills :
          LET f == last.fills[i]
          IN /\ f.price \in DOMAIN OppBefore
             /\ ~Better(last.price, f.price)
             /\ \A j \in DOMAIN last.fills : j < i => Better(last.fills[j].price, f.price)
             /\ \A p \in DOMAIN OppBefore :
                   Better(p, f.price) =>
                       /\ p \notin DOMAIN OppAfter
                       /\ \E j \in DOMAIN last.fills :
                             /\ j < i
                             /\ last.fills[j].price = p
                             /\ last.fills[j].matched = OppBefore[p]
    /\ \A p \in DOMAIN OppBefore :
          (\A i \in DOMAIN last.fills : last.fills[i].price # p) =>
              QtyAt(OppAfter, p) = OppBefore[p]
    /\ (/\ last.bids = EmptyMap
        /\ DOMAIN last.asks = {101, 102} /\ last.asks[101] = 5 /\ last.asks[102] = 5
        /\ last.side = BUY /\ last.price = 102 /\ last.quantity = 12)
       => (/\ asks = EmptyMap
           /\ DOMAIN bids = {102} /\ bids[102] = 2
           /\ FillMatched = <<5, 5>>)

\* the sweep of the scenario: asks {101:5, 102:5}, then BUY 12@102
C10_Witness ==
    /\ last.bids = EmptyMap
    /\ DOMAIN last.asks = {101, 102} /\ last.asks[101] = 5 /\ last.asks[102] = 5
    /\ last.side = BUY /\ last.price = 102 /\ last.quantity = 12
    /\ Len(last.fills) = 2
    /\ bids # EmptyMap

\* C11: an order whose quantity matching absorbs entirely leaves the level
\* map of its own side as it was: no level created, changed or removed.
C11_AbsorbedLeavesOwnSide ==
    (processed > 0 /\ last.remaining = 0) => OwnAfter = OwnBefore

\* an order absorbed by the opposite side while its own side has a level
C11_Witness ==
    /\ processed > 0
    /\ last.remaining = 0
    /\ last.fills # <<>>
    /\ OwnBefore # EmptyMap
    /\ OwnAfter = OwnBefore

\* the order of the last call crossed no resting opposite-side level
CrossesNothing ==
    \/ OppBefore = EmptyMap
    \/ last.side = BUY /\ last.price < MinOf(DOMAIN OppBefore)
    \/ last.side = SELL /\ last.price > MaxOf(DOMAIN OppBefore)

\* C12: an order whose price crosses no resting opposite-side level rests
\* entirely: the opposite side is unchanged and the own-side level at the
\* order's price grows by the order's whole quantity.
C12_UncrossedRests ==
    (processed > 0 /\ CrossesNothing) =>
        /\ last.fills = <<>>
        /\ last.remaining = last.quantity
        /\ OppAfter = OppBefore
        /\ QtyAt(OwnAfter, last.price) = QtyAt(OwnBefore, last.price) + last.quantity

\* a SELL priced above the highest bid, resting beside the bids
C12_Witness ==
    /\ processed > 0
    /\ last.side = SELL
    /\ last.bids # EmptyMap
    /\ last.price > MaxOf(DOMAIN last.bids)
    /\ QtyAt(asks, last.price) = QtyAt(last.asks, last.price) + last.quantity
    /\ bids = last.bids

\* two successive calls (the one recorded in last, then the one recorded
\* in last') that rest a and then b at one price of one side
RestsTwice ==
    /\ processed > 0 /\ processed' = processed + 1
    /\ last.fills = <<>> /\ last'.fills = <<>>
    /\ last'.side = last.side /\ last'.price = last.price
C13_Step ==
    RestsTwice =>
        LET before == OwnBefore
            after == IF last.side = BUY THEN bids' ELSE asks'
        IN /\ DOMAIN after = DOMAIN before \cup {last.price}
           /\ after[last.price] = QtyAt(before, last.price) + last.quantity + last'.quantity
           /\ \A p \in DOMAIN before \ {last.price} : after[p] = before[p]

\* C13: quantity resting at one price of one side is aggregated in one
\* level: adding a and then b at the same price, nothing matching, gives one
\* level at that price holding a + b (created if absent, summed if
\* present) and leaves the levels at other prices unchanged.
C13_Aggregation == [][C13_Step]_vars

\* the second of two orders rested at one price, beside another level
C13_Witness ==
    /\ processed >= 2
    /\ last.fills = <<>>
    /\ last.price \in DOMAIN OwnBefore
    /\ DOMAIN OwnBefore # {last.price}
    /\ OwnAfter[last.price] = OwnBefore[last.price] + last.quantity

\* the order's remaining quantity before fill i of the last call
RemainingBefore(i) == IF i = 1 THEN last.quantity ELSE last.fills[i - 1].remaining

\* C14: during and after process_order on an order of positive quantity
\* the remaining quantity stays in 0..original: each step subtracts
\* min(remaining, level quantity).
C14_RemainingInRange ==
    processed > 0 =>
        /\ last.remaining \in 0..last.quantity
        /\ \A i \in DOMAIN last.fills :
              LET f == last.fills[i]
              IN /\ f.remaining \in 0..last.quantity
                 /\ f.matched <= RemainingBefore(i)
                 /\ f.matched <= OppBefore[f.price]
                 /\ f.matched \in {RemainingBefore(i), OppBefore[f.price]}
                 /\ f.remaining = RemainingBefore(i) - f.matched
        /\ last.remaining =
              IF last.fills = <<>> THEN last.quantity
              ELSE last.fills[Len(last.fills)].remaining

\* an order larger than the first level it met and smaller than the two
\* levels together
C14_Witness ==
    /\ Len(last.fills) = 2
    /\ last.fills[1].remaining > 0
    /\ last.fills[2].matched < OppBefore[last.fills[2].price]
    /\ last.remaining = 0

\* the mirror image of a level map (every price negated), of a fill, and
\* of a result of process_order (sides exchanged)
MirrorMap(m) == [x \in {0 - k : k \in DOMAIN m} |-> m[0 - x]]
MirrorSide(side) == IF side = BUY THEN SELL ELSE BUY
MirrorFill(f) == [f EXCEPT !.price = 0 - f.price]
MirrorResult(r) ==
    [bids |-> MirrorMap(r.asks), asks |-> MirrorMap(r.bids),
     order |-> [r.order EXCEPT !.side = MirrorSide(r.order.side), !.price = 0 - r.order.price],
     fills |-> [i \in DOMAIN r.fills |-> MirrorFill(r.fills[i])]]

\* C19: in every book state and for every order, match_sell on p, q gives
\* what mirroring the book, match_buy on -p, q and mirroring back gives
\* (the book, the remaining quantity and the levels filled, in order).
C19_SellMirrorsBuy ==
    \A price \in BookPrices, quantity \in BookQtys :
        LET sell == [ZeroOrder EXCEPT !.side = SELL, !.price = price, !.quantity = quantity]
            buy == [ZeroOrder EXCEPT !.side = BUY, !.price = 0 - price, !.quantity = quantity]
        IN match_sell(bids, asks, sell)
              = MirrorResult(match_buy(MirrorMap(asks), MirrorMap(bids), buy))

\* a SELL has erased the best bid level and gone on to the next lower one
C19_Witness ==
    /\ last.side = SELL
    /\ Len(last.fills) = 2
    /\ last.fills[1].erased
    /\ last.fills[1].price > last.fills[2].price
    /\ last.fills[1].price \notin DOMAIN bids

(***************************************************************************)
(* Orders of non-positive quantity (checked under SpecBookAny).            *)
(***************************************************************************)
SomeLevelNotPositive ==
    \/ \E p \in DOMAIN bids : bids[p] <= 0
    \/ \E p \in DOMAIN asks : asks[p] <= 0

\* C18 as stated: process_order takes an order of zero or negative
\* quantity, and the book after it holds a level of quantity <= 0.
C18_NonPositiveCorrupts ==
    (processed > 0 /\ last.quantity <= 0) => SomeLevelNotPositive

\* C18 as amended: process_order takes an order of zero or negative
\* quantity without rejecting it and does nothing with it: no level is
\* matched, the order's quantity and the book are as before the call, and
\* no reachable book holds a level of quantity <= 0.
C18_NonPositiveIgnored ==
    /\ ~SomeLevelNotPositive
    /\ (processed > 0 /\ last.quantity <= 0) =>
          /\ last.fills = <<>>
          /\ last.remaining = last.quantity
          /\ bids = last.bids
          /\ asks = last.asks

\* a BUY of negative quantity priced at or above the best ask, and a book
\* with levels on both sides, after the call
C18_Witness ==
    /\ processed > 0
    /\ last.quantity < 0
    /\ last.side = BUY
    /\ last.asks # EmptyMap
    /\ last.price >= MinOf(DOMAIN last.asks)
    /\ bids # EmptyMap
    /\ asks = last.asks

(***************************************************************************)
(* Properties of the pipeline (checked under Spec and FairSpec).           *)
(***************************************************************************)
AllProducersDone == \A p \in Producers : pc_prod[p] = "done"
AllThreadsDone == AllProducersDone /\ pc_cons = "done"
ReporterRan == pc_main = "done"

\* C4: when all threads have terminated, the queue is empty and there are
\* as many latency samples as orders submitted.
C4_AllSubmittedProcessed ==
    (AllThreadsDone /\ pc_main \in {"report", "done"}) =>
        /\ SizeApprox(order_queue) = 0
        /\ Len(end_to_end_latencies_ns) = submitted

\* C5: once the run-signal is false, every generator and the matching
\* thread exit their loops, main's joins complete and the reporter runs.
C5_ShutdownTerminates ==
    (~running) ~> (AllThreadsDone /\ ReporterRan /\ stats.kind # "none")

\* a run that ended with orders drained after the signal dropped
C5_Witness ==
    /\ ~running /\ AllThreadsDone /\ ReporterRan
    /\ stats.kind = "stats"
    /\ stats.total_count = MaxOrders

\* the order the consumer last dequeued has been recorded
Recorded == processed > 0 /\ pc_cons \in {"loop", "check_size", "dequeue", "final", "done"}

\* C6: for every order whose latency sample is recorded,
\* timestamp_produce <= timestamp_consume <= timestamp_processed, and every
\* recorded sample is >= 0.
C6_LatencyCausality ==
    /\ \A i \in DOMAIN end_to_end_latencies_ns : end_to_end_latencies_ns[i] >= 0
    /\ pc_cons = "record" => c_order.timestamp_produce <= c_order.timestamp_consume
    /\ Recorded =>
          /\ c_order.timestamp_produce <= c_order.timestamp_consume
          /\ c_order.timestamp_consume <= c_order.timestamp_processed
    /\ \A p \in Producers : \A i \in DOMAIN order_queue[p] :
          order_queue[p][i].timestamp_produce <= clock

\* a recorded order during whose trip through the queue the clock advanced
C6_Witness ==
    /\ Recorded
    /\ pc_main # "done"
    /\ c_order.timestamp_produce < c_order.timestamp_processed
    /\ end_to_end_latencies_ns[Len(end_to_end_latencies_ns)] > 0

IssuedIds == {issued[i] : i \in DOMAIN issued}

\* C7: no two created orders carry the same id, and the ids handed out for
\* k created orders are exactly 0..k-1.
C7_UniqueIds ==
    /\ \A i, j \in DOMAIN issued : i # j => issued[i] # issued[j]
    /\ IssuedIds = 0..(Len(issued) - 1)
    /\ \A p, q \in Producers :
          (p # q /\ pc_prod[p] = "enqueue" /\ pc_prod[q] = "enqueue")
              => p_order[p].id # p_order[q].id

\* two generators each hold a created order that is not yet enqueued
C7_Witness ==
    /\ Len(issued) >= 2
    /\ \E p, q \in Producers : p # q /\ pc_prod[p] = "enqueue" /\ pc_prod[q] = "enqueue"

\* C8 as stated: at every point before the reporter runs, the latency
\* sequence is as long as the number of process_order calls that returned.
C8_LengthEqualsProcessed ==
    pc_main # "done" => Len(end_to_end_latencies_ns) = processed

\* the length is the number of process_order calls that returned, or one
\* less between the return of process_order and the push_back
C8_LengthInv ==
    pc_main # "done" =>
        Len(end_to_end_latencies_ns) = IF pc_cons = "record" THEN processed - 1 ELSE processed
C8_AppendStep ==
    (pc_main' # "done" /\ end_to_end_latencies_ns' # end_to_end_latencies_ns) =>
        /\ pc_cons = "record"
        /\ Len(end_to_end_latencies_ns') = processed
        /\ SubSeq(end_to_end_latencies_ns', 1, Len(end_to_end_latencies_ns))
              = end_to_end_latencies_ns
        /\ end_to_end_latencies_ns'[processed] = Latency(c_order')

\* C8 as amended: the length equals the number of process_order calls that
\* returned, except between the return of process_order and the push_back
\* of the same order, where it is one less; each change before the reporter
\* runs appends the latency of the order just processed and keeps every
\* earlier entry.
C8_AppendOnly == []C8_LengthInv /\ [][C8_AppendStep]_vars

\* two samples of different value recorded, the reporter not yet run
C8_Witness ==
    /\ pc_main # "done"
    /\ Len(end_to_end_latencies_ns) = 2
    /\ processed = 2
    /\ end_to_end_latencies_ns[1] # end_to_end_latencies_ns[2]

\* threads at a statement that reads or writes the latency sequence
LatencyAccessors ==
    (IF pc_cons = "record" THEN {"consumer"} ELSE {})
        \cup (IF pc_main = "report" THEN {"main"} ELSE {})

\* the reporter starts only after every thread has terminated
C9_ReportAfterJoin == pc_main \in {"report", "done"} => AllThreadsDone
C9_BookStep ==
    (bids' # bids \/ asks' # asks) => (pc_cons = "process" /\ pc_cons' = "record")
C9_LatencyStep ==
    end_to_end_latencies_ns' # end_to_end_latencies_ns =>
        \/ pc_cons = "record" /\ pc_cons' = "loop" /\ pc_main' = pc_main
        \/ pc_main = "report" /\ pc_main' = "done" /\ AllThreadsDone

\* C9: the book and the latency sequence are touched by one thread at a
\* time: by the matching thread alone while it runs, and the reporter reads
\* and sorts the latencies only after every thread has terminated.
C9_SingleOwner ==
    /\ [](Cardinality(LatencyAccessors) <= 1 /\ C9_ReportAfterJoin)
    /\ [][C9_BookStep /\ C9_LatencyStep]_vars

\* the matching thread recorded two samples of different value and the
\* reporter, run after all joins, has sorted them
C9_Witness ==
    /\ pc_main = "done"
    /\ AllThreadsDone
    /\ stats.kind = "stats"
    /\ Len(end_to_end_latencies_ns) = 2
    /\ end_to_end_latencies_ns[1] < end_to_end_latencies_ns[2]

(***************************************************************************)
(* Properties of the reporter (checked under SpecStats).                   *)
(***************************************************************************)
\* the reporter's step, from a non-empty and from an empty sequence
Reports == pc_main = "report" /\ pc_main' = "done"
Occurrences(seq, v) == Cardinality({i \in DOMAIN seq : seq[i] = v})
Values(seq) == {seq[i] : i \in DOMAIN seq}

\* C15: for every non-empty sample sequence and each p of 0.50, 0.90 and
\* 0.99 the index floor(count * p) is a position of the sorted sequence:
\* 0 <= index <= count - 1.
C15_IndexInRange ==
    stats.kind = "stats" =>
        /\ stats.total_count = Len(end_to_end_latencies_ns)
        /\ stats.total_count >= 1
        /\ \A index \in {stats.p50, stats.p90, stats.p99} :
              0 <= index /\ index <= stats.total_count - 1

\* 100 samples: the 99th percentile reads the last position
C15_Witness ==
    /\ stats.kind = "stats"
    /\ stats.total_count = 100
    /\ stats.p99 = 99
    /\ stats.p90 = 90
    /\ stats.p50 = 50

C16_Step ==
    (Reports /\ end_to_end_latencies_ns # <<>>) =>
        LET samples == end_to_end_latencies_ns
            sorted == end_to_end_latencies_ns'
            count == Len(samples)
            st == stats'
        IN /\ st.kind = "stats"
           /\ Len(sorted) = count
           /\ \A v \in Values(samples) \cup Values(sorted) :
                 Occurrences(sorted, v) = Occurrences(samples, v)
           /\ \A i, j \in DOMAIN sorted : i < j => sorted[i] <= sorted[j]
           /\ st.total_count = count
           /\ st.min_ns = MinOf(Values(samples))
           /\ st.max_ns = MaxOf(Values(samples))
           /\ st.mean_ns.num = SumSeq(samples) /\ st.mean_ns.den = count
           /\ st.p50_ns = sorted[((count * 50) \div 100) + 1]
           /\ st.p90_ns = sorted[((count * 90) \div 100) + 1]
           /\ st.p99_ns = sorted[((count * 99) \div 100) + 1]
           /\ st.min_ns <= st.p50_ns /\ st.p50_ns <= st.p90_ns
           /\ st.p90_ns <= st.p99_ns /\ st.p99_ns <= st.max_ns
           /\ (Values(samples) = {10, 20, 30, 40} /\ count = 4) =>
                 /\ st.total_count = 4
                 /\ st.mean_ns.num = 25 * st.mean_ns.den
                 /\ st.min_ns = 10 /\ st.max_ns = 40
                 /\ st.p50_ns = 30

\* C16: for a non-empty sample sequence the reporter gives count = number
\* of samples, min and max = smallest and largest sample, mean = sum /
\* count and each percentile = the element at index floor(count * p) of the
\* samples sorted ascending, so min <= p50 <= p90 <= p99 <= max; samples
\* 10, 20, 30, 40 give count 4, mean 25, min 10, max 40, p50 30.
C16_ReporterResults == [][C16_Step]_vars

\* the report over the samples 10, 20, 30, 40
C16_Witness ==
    /\ pc_main = "done"
    /\ end_to_end_latencies_ns = <<10, 20, 30, 40>>
    /\ stats.kind = "stats"
    /\ stats.total_count = 4
    /\ stats.p50_ns = 30
    /\ stats.sum = 100

C17_Step ==
    (Reports /\ end_to_end_latencies_ns = <<>>) =>
        /\ end_to_end_latencies_ns' = <<>>
        /\ stats' = [kind |-> "no_latencies"]

\* C17: from an empty latency sequence the reporter gives the no-samples
\* outcome and nothing else (no count, sum, mean or percentile is computed)
\* and leaves the sequence as it was.
C17_EmptyReportsNothing ==
    /\ [](stats.kind = "no_latencies" =>
             (end_to_end_latencies_ns = <<>> /\ DOMAIN stats = {"kind"}))
    /\ [](stats.kind = "stats" => end_to_end_latencies_ns # <<>>)
    /\ [][C17_Step]_vars

\* the reporter has run over an empty sequence
C17_Witness ==
    /\ pc_main = "done"
    /\ stats.kind = "no_latencies"
    /\ end_to_end_latencies_ns = <<>>

(***************************************************************************)
(* Cooperative cancellation of the generators (checked under Spec).        *)
(***************************************************************************)
\* a generator inside an iteration: past the loop test, order not yet enqueued
InFlight(p) == pc_prod[p] \in {"create", "enqueue"}
InFlightNext(p) == pc_prod'[p] \in {"create", "enqueue"}
Submits(p) == Len(order_queue'[p]) > Len(order_queue[p])

C20_Step ==
    ~running =>
        /\ ~running'
        /\ \A p \in Producers :
              \* no iteration starts once the signal is false
              /\ ~InFlight(p) => ~InFlightNext(p)
              \* an order is submitted only by finishing an iteration already
              \* in flight, after which the generator is back at the loop test
              /\ Submits(p) => (pc_prod[p] = "enqueue" /\ pc_prod'[p] = "check"
                                /\ Len(order_queue'[p]) = Len(order_queue[p]) + 1)
              /\ (InFlight(p) /\ ~InFlightNext(p)) => Submits(p)
              \* the loop test then reads false and the thread ends for good
              /\ (pc_prod[p] = "check" /\ pc_prod'[p] # "check") => pc_prod'[p] = "done"
              /\ pc_prod[p] = "done" => pc_prod'[p] = "done"

\* C20: once the run-signal is false it stays false, and each generator
\* submits at most one further order, the one of the iteration that had
\* already passed the loop test, and then stops: no generator enters a new
\* iteration after the signal is false.
C20_AtMostOneMore == [][C20_Step]_vars

\* every thread has ended and an order enqueued after the stop is still in
\* the queue: its generator submitted one further order and then stopped
C20_Witness ==
    /\ ~running
    /\ pc_cons = "done"
    /\ \E p \in Producers : pc_prod[p] = "done" /\ Len(order_queue[p]) = 1

====
